---- MODULE Spec2Model ----
(***************************************************************************)
(* Custom emoji of takahe: activities/models/emoji.py.                     *)
(*                                                                         *)
(*   SpecStator  EmojiStates.handle_outdated run by the stator driver      *)
(*   SpecStore   the write paths: Emoji.clean + save, Emoji.by_ap_tag      *)
(*   SpecApTag   by_ap_tag alone                                           *)
(*   SpecRender  the read paths: usable(), load_locals,                    *)
(*               emojis_from_content, imageify_emojis                      *)
(*                                                                         *)
(* Strings that the code scans or normalises (content, tag names,          *)
(* shortcodes) are sequences of one-character strings; opaque strings      *)
(* (URLs, file names, media types, domain names) are TLA+ strings.         *)
(***************************************************************************)
EXTENDS Integers, Sequences, FiniteSets, TLC

VARIABLES
    emojis,        \* the emoji table: pk -> row
    config,        \* Config.system.emoji_unreviewed_are_public
    locals,        \* Emoji.locals, the cache {shortcode: Emoji}
    call,          \* the last call of the store / render API and its outcome
    now,           \* the clock the stator driver reads
    next_attempt,  \* pk -> state_next_attempt
    locked,        \* pk -> the driver holds the row's lock
    task,          \* worker -> the handler run it is executing
    fetch_log,     \* pk -> what get_remote_file returned for the row, in order
    save_log       \* pk -> number of instance.save() calls of the handler

vars == <<emojis, config, locals, call, now, next_attempt, locked, task,
          fetch_log, save_log>>

storeVars == <<emojis, config, locals, call>>
statorVars == <<now, next_attempt, locked, task, fetch_log, save_log>>

\* None / SQL NULL.
NULL == "NULL"

(***************************************************************************)
(* Bounds of the model.                                                    *)
(***************************************************************************)
MaxStatorEmoji == 2
MaxWorkers == 2
MaxTime == 300
MaxEmoji == 2
MaxLen == 4
MaxExtra == 1

(***************************************************************************)
(* EmojiStates                                                             *)
(***************************************************************************)
try_interval == 300

States == {"outdated", "updated"}

\* outdated = State(try_interval=300, force_initial=True)
InitialState == "outdated"

\* outdated.transitions_to(updated)
Transitions == {<<"outdated", "updated">>}

\* Only `outdated` has a handler; `updated` is left alone by the driver.
HasHandler(state) == state = "outdated"

\* A row of the emoji table.
EmojiRow(pk, shortcode, domain, local, public, object_uri, mimetype, file, remote_url) ==
    [pk |-> pk, shortcode |-> shortcode, domain |-> domain, local |-> local,
     public |-> public, object_uri |-> object_uri, mimetype |-> mimetype,
     file |-> file, remote_url |-> remote_url, state |-> InitialState]

\* What get_remote_file can return: (file, mimetype), file falsy on failure.
FetchFailed == [file |-> NULL, mimetype |-> NULL]
FetchResults == {FetchFailed, [file |-> "fetched.png", mimetype |-> "image/png"]}

\* (Variant: the test without `and not instance.file`.)
IgnoresFile(instance) == instance.remote_url # NULL

\* `if instance.remote_url and not instance.file`
NeedsFetch(instance) == instance.remote_url # NULL /\ instance.file = NULL

\* (Variant: the media type is not taken over.)
OnlyFileStored(instance, fetched) == [instance EXCEPT !.file = fetched.file]

\* instance.file = file; instance.mimetype = mimetype
StoreFetched(instance, fetched) ==
    [instance EXCEPT !.file = fetched.file, !.mimetype = fetched.mimetype]

\* `if file:` guards the assignment and the save.
FetchedTruthy(fetched) == fetched.file # NULL

\* What handle_outdated returns after the fetch came back.
HandlerReturn(fetched) == "updated"

\* instance.save(): every column of the row is written from the instance.
Save(row, instance) == instance

Workers == 1..MaxWorkers
StatorPks == 1..MaxStatorEmoji

Idle == [pc |-> "idle", pk |-> 0, instance |-> NULL, ret |-> NULL]

\* Rows the driver can find in `outdated`: created by by_ap_tag (remote_url, no
\* file), uploaded locally (file, no remote_url), or sent back to `outdated`
\* after a fetch (both), or with neither.
StatorRows(pk) ==
    { EmojiRow(pk, <<"a">>, d.domain, d.local, NULL, NULL, f.mimetype, f.file, u)
        : d \in {[domain |-> NULL, local |-> TRUE]},
          f \in {[file |-> NULL, mimetype |-> "image/gif"],
                 [file |-> "cached.gif", mimetype |-> "image/gif"]},
          u \in {NULL, "https://remote/a.png"} }

\* No call of the store / render API is outstanding.
NoCall == [op |-> "none"]

\* The caller takes the outcome of its call.
Return ==
    /\ call.op # "none"
    /\ call' = NoCall
    /\ UNCHANGED <<emojis, config, locals, now, next_attempt, locked, task,
                   fetch_log, save_log>>

InitStator ==
    /\ emojis \in {f \in [StatorPks -> UNION {StatorRows(pk) : pk \in StatorPks}]
                     : \A pk \in StatorPks : f[pk].pk = pk}
    /\ config = TRUE
    /\ locals = <<>>
    /\ call = NoCall
    /\ now = 0
    /\ next_attempt = [pk \in StatorPks |-> 0]
    /\ locked = [pk \in StatorPks |-> FALSE]
    /\ task = [w \in Workers |-> Idle]
    /\ fetch_log = [pk \in StatorPks |-> <<>>]
    /\ save_log = [pk \in StatorPks |-> 0]

\* (Variant: a selection that does not look at the lock.)
IgnoresLock(pk) ==
    /\ HasHandler(emojis[pk].state)
    /\ next_attempt[pk] <= now

\* The driver's selection: the row is in a state with a handler, its attempt is
\* due, and no other run holds it.
Claimable(pk) ==
    /\ HasHandler(emojis[pk].state)
    /\ next_attempt[pk] <= now
    /\ ~locked[pk]

\* The driver takes a due row, locks it and loads the instance the handler gets.
Claim(w, pk) ==
    /\ task[w].pc = "idle"
    /\ Claimable(pk)
    /\ locked' = [locked EXCEPT ![pk] = TRUE]
    /\ task' = [task EXCEPT ![w] =
                  [pc |-> "handle", pk |-> pk, instance |-> emojis[pk], ret |-> NULL]]
    /\ UNCHANGED <<storeVars, now, next_attempt, fetch_log, save_log>>

\* handle_outdated up to its only suspension point, the await of get_remote_file;
\* when there is nothing to fetch it runs to its return.
handle_outdated(w) ==
    /\ task[w].pc = "handle"
    /\ IF NeedsFetch(task[w].instance)
         THEN task' = [task EXCEPT ![w].pc = "fetch"]
         ELSE task' = [task EXCEPT ![w].pc = "return", ![w].ret = "updated"]
    /\ UNCHANGED <<storeVars, now, next_attempt, locked, fetch_log, save_log>>

\* get_remote_file comes back with `fetched`; the rest of handle_outdated.
handle_outdated_resumed(w, fetched) ==
    LET pk == task[w].pk
        instance == IF FetchedTruthy(fetched)
                      THEN StoreFetched(task[w].instance, fetched)
                      ELSE task[w].instance
    IN /\ task[w].pc = "fetch"
       /\ fetch_log' = [fetch_log EXCEPT ![pk] = Append(@, fetched)]
       /\ IF FetchedTruthy(fetched)
            THEN /\ emojis' = [emojis EXCEPT ![pk] = Save(@, instance)]
                 /\ save_log' = [save_log EXCEPT ![pk] = @ + 1]
            ELSE UNCHANGED <<emojis, save_log>>
       /\ task' = [task EXCEPT ![w].pc = "return", ![w].instance = instance,
                               ![w].ret = HandlerReturn(fetched)]
       /\ UNCHANGED <<config, locals, call, now, next_attempt, locked>>

\* The driver applies what the handler returned: a state is transitioned to; with
\* no state returned the row stays and is due again after the try interval.
ApplyReturn(w) ==
    LET pk == task[w].pk
        ret == task[w].ret
    IN /\ task[w].pc = "return"
       /\ IF ret # NULL
            THEN /\ <<emojis[pk].state, ret>> \in Transitions
                 /\ emojis' = [emojis EXCEPT ![pk].state = ret]
                 /\ next_attempt' = [next_attempt EXCEPT ![pk] = now]
            ELSE /\ next_attempt' = [next_attempt EXCEPT ![pk] = now + try_interval]
                 /\ UNCHANGED emojis
       /\ locked' = [locked EXCEPT ![pk] = FALSE]
       /\ task' = [task EXCEPT ![w] = Idle]
       /\ UNCHANGED <<config, locals, call, now, fetch_log, save_log>>

\* Time passes.
Tick ==
    /\ now < MaxTime
    /\ now' = now + try_interval
    /\ UNCHANGED <<storeVars, next_attempt, locked, task, fetch_log, save_log>>

NextStator ==
    \/ \E w \in Workers, pk \in StatorPks : Claim(w, pk)
    \/ \E w \in Workers : handle_outdated(w)
    \/ \E w \in Workers, fetched \in FetchResults : handle_outdated_resumed(w, fetched)
    \/ \E w \in Workers : ApplyReturn(w)
    \/ Tick

SpecStator == InitStator /\ [][NextStator]_vars

(***************************************************************************)
(* The emoji table and its write paths.                                    *)
(***************************************************************************)
\* users.Domain objects; DomainNone stands for `domain=None`.
DomainNone == [name |-> NULL, local |-> FALSE]
DomainLocal == [name |-> "local.example", local |-> TRUE]
DomainRemote1 == [name |-> "remote1.example", local |-> FALSE]
DomainRemote2 == [name |-> "remote2.example", local |-> FALSE]
Domains == {DomainLocal, DomainRemote1, DomainRemote2}

IsNone(domain) == domain.name = NULL

\* str.lower()
LowerChar(c) == IF c = "A" THEN "a" ELSE c
Lower(s) == [i \in 1..Len(s) |-> LowerChar(s[i])]

\* str.strip(":")
RECURSIVE LStrip(_)
LStrip(s) == IF s # <<>> /\ Head(s) = ":" THEN LStrip(Tail(s)) ELSE s
RECURSIVE RStrip(_)
RStrip(s) ==
    IF s # <<>> /\ s[Len(s)] = ":" THEN RStrip(SubSeq(s, 1, Len(s) - 1)) ELSE s
Strip(s) == RStrip(LStrip(s))

\* Tag data as the federation layer hands it to by_ap_tag.
ObjectUris == {"https://remote/emoji/1", "https://remote/emoji/2"}
TagNames == {<<":", "A", ":">>, <<"a">>, <<":", "b", ":">>}
TagIcon == [mediaType |-> "image/png", url |-> "https://remote/a.png"]
TagData == [id : ObjectUris, name : TagNames, icon : {TagIcon}]

Pks == DOMAIN emojis
NextPk == Cardinality(Pks) + 1

\* cls.objects.get(object_uri=...): the rows it finds.
GetByObjectUri(rows, uri) == {pk \in DOMAIN rows : rows[pk].object_uri = uri}

\* The table's constraints: object_uri is unique, (domain, shortcode) is
\* unique_together.  A unique index never equates two NULLs, so neither
\* constraint binds a row whose object_uri, resp. domain, is NULL.
IntegrityError(rows, row) ==
    \E pk \in DOMAIN rows :
        \/ row.object_uri # NULL /\ rows[pk].object_uri = row.object_uri
        \/ /\ row.domain # NULL
           /\ rows[pk].domain = row.domain
           /\ rows[pk].shortcode = row.shortcode

Insert(rows, row) == [pk \in DOMAIN rows \cup {row.pk} |->
                        IF pk = row.pk THEN row ELSE rows[pk]]

\* (Variant: the icon's URL is not stored.)
ApTagRowNoUrl(pk, domain, data) ==
    EmojiRow(pk, Strip(Lower(data.name)),
             IF domain.local THEN NULL ELSE domain.name, domain.local,
             NULL, data.id, data.icon.mediaType, NULL, NULL)

\* The row by_ap_tag creates.
ApTagRow(pk, domain, data) ==
    EmojiRow(pk, Strip(Lower(data.name)),
             IF domain.local THEN NULL ELSE domain.name, domain.local,
             NULL, data.id, data.icon.mediaType, NULL, data.icon.url)

by_ap_tag(domain, data, create) ==
    LET found == GetByObjectUri(emojis, data.id)
        row == ApTagRow(NextPk, domain, data)
        done(outcome, ret) ==
            call' = [op |-> "by_ap_tag", domain |-> domain, data |-> data,
                     create |-> create, outcome |-> outcome, ret |-> ret,
                     before |-> emojis]
    IN /\ call.op = "none"
       /\ IF found # {}
            THEN /\ done("returned", CHOOSE pk \in found : TRUE)
                 /\ UNCHANGED emojis
            ELSE IF ~create
            THEN /\ done("KeyError", 0)
                 /\ UNCHANGED emojis
            ELSE IF IntegrityError(emojis, row)
            THEN /\ done("IntegrityError", 0)
                 /\ UNCHANGED emojis
            ELSE /\ Cardinality(Pks) < MaxEmoji
                 /\ done("created", row.pk)
                 /\ emojis' = Insert(emojis, row)
       /\ UNCHANGED <<config, locals, statorVars>>

\* (Variant: a clean() that accepts everything.)
NeverRaises(row) == FALSE

\* Emoji.clean: `if self.local ^ (self.domain is None): raise ValidationError`
CleanRaises(row) == row.local # (row.domain = NULL)

\* Rows an administrator submits: a local upload, or the review of a remote one.
Candidates ==
    { EmojiRow(0, <<"a">>, d, l, p, NULL, "image/png", "upload.png", NULL)
        : d \in {NULL, DomainRemote1.name}, l \in BOOLEAN, p \in {"true", "false"} }

\* Model.validate_unique skips a constraint when one of its values is None.
ValidateUniqueRaises(rows, row) == IntegrityError(rows, row)

\* A validated write: full_clean() (clean, validate_unique), then save().
validated_write(candidate) ==
    LET row == [candidate EXCEPT !.pk = NextPk]
        raised == CleanRaises(row)
        done(outcome) ==
            call' = [op |-> "validated_write", candidate |-> candidate,
                     clean_raised |-> raised, outcome |-> outcome,
                     before |-> emojis]
    IN /\ call.op = "none"
       /\ IF raised \/ ValidateUniqueRaises(emojis, row)
            THEN /\ done("ValidationError")
                 /\ UNCHANGED emojis
            ELSE /\ Cardinality(Pks) < MaxEmoji
                 /\ done("saved")
                 /\ emojis' = Insert(emojis, row)
       /\ UNCHANGED <<config, locals, statorVars>>

InitStore ==
    /\ emojis = <<>>
    /\ config = TRUE
    /\ locals = <<>>
    /\ call = NoCall
    /\ now = 0
    /\ next_attempt = <<>>
    /\ locked = <<>>
    /\ task = <<>>
    /\ fetch_log = <<>>
    /\ save_log = <<>>

NextApTag ==
    \/ /\ call.op = "none"
       /\ \E domain \in Domains, data \in TagData, create \in BOOLEAN :
             by_ap_tag(domain, data, create)
    \/ Return

NextStore ==
    \/ /\ call.op = "none"
       /\ \E domain \in Domains, data \in TagData, create \in BOOLEAN :
             by_ap_tag(domain, data, create)
    \/ /\ call.op = "none"
       /\ \E candidate \in Candidates : validated_write(candidate)
    \/ Return

SpecApTag == InitStore /\ [][NextApTag]_vars
SpecStore == InitStore /\ [][NextStore]_vars

(***************************************************************************)
(* The read paths: usable(), load_locals, emojis_from_content and          *)
(* imageify_emojis.                                                        *)
(***************************************************************************)
Range(f) == {f[x] : x \in DOMAIN f}

\* Emoji.is_usable
is_usable(row) == row.public = "true" \/ (row.public = NULL /\ config)

\* EmojiQuerySet.usable, on the rows of a queryset.
usable(rows, domain) ==
    LET visible == IF IsNone(domain) \/ domain.local
                     THEN {r \in rows : r.local}
                     ELSE {r \in rows :
                             r.public = "true" \/ (config /\ r.public = NULL)}
    IN IF ~IsNone(domain) /\ ~domain.local
         THEN {r \in visible : r.domain = domain.name}
         ELSE visible

\* The characters content is written in, and the classes emoji_regex,
\* \B:([a-zA-Z0-9(_)-]+):\B, sorts them into.
Alphabet == {":", "a", "A", "-"}
ClassChars == {"a", "A", "-"}
WordChars == {"a", "A"}
Contents == UNION {[1..n -> Alphabet] : n \in 0..MaxLen}

\* \B after the first p characters of s: the characters on both sides are both
\* word characters or both not (the outside of the string is not).
IsWord(s, i) == i \in 1..Len(s) /\ s[i] \in WordChars
NonWordBoundary(s, p) == IsWord(s, p) <=> IsWord(s, p + 1)

\* Where the greedy run [a-zA-Z0-9(_)-]+ that starts at i stops: the first index
\* from i on that holds no character of the class.
RECURSIVE RunEnd(_, _)
RunEnd(s, i) == IF i <= Len(s) /\ s[i] \in ClassChars THEN RunEnd(s, i + 1) ELSE i

\* emoji_regex matched at index i: the index of the closing colon, or 0.
MatchAt(s, i) ==
    LET j == RunEnd(s, i + 1)
    IN IF /\ NonWordBoundary(s, i - 1)
          /\ s[i] = ":"
          /\ j > i + 1
          /\ j <= Len(s)
          /\ s[j] = ":"
          /\ NonWordBoundary(s, j)
         THEN j
         ELSE 0

\* match.group(1)
Group1(s, i, j) == SubSeq(s, i + 1, j - 1)

\* emoji_regex.findall(s): group 1 of the non-overlapping matches, left to right.
RECURSIVE FindAll(_, _)
FindAll(s, i) ==
    IF i > Len(s) THEN <<>>
    ELSE LET j == MatchAt(s, i)
         IN IF j # 0 THEN <<Group1(s, i, j)>> \o FindAll(s, j + 1)
                     ELSE FindAll(s, i + 1)

\* The pieces of rendered content: a character, or an <img> element.
NoSrc == [kind |-> NULL, file |-> NULL, pk |-> 0]
Char(c) == [t |-> "char", c |-> c, src |-> NoSrc, alt |-> <<>>]
Img(src, alt) == [t |-> "img", c |-> NULL, src |-> src, alt |-> alt]
Literal(s) == [i \in 1..Len(s) |-> Char(s[i])]

\* Emoji.full_url
full_url(row) ==
    IF is_usable(row) /\ row.file # NULL
      THEN [kind |-> "file", file |-> row.file, pk |-> 0]
    ELSE IF is_usable(row) /\ row.remote_url # NULL
      THEN [kind |-> "proxy", file |-> NULL, pk |-> row.pk]
    ELSE [kind |-> "static", file |-> "img/blank-emoji-128.png", pk |-> 0]

\* Emoji.fullcode
fullcode(row) == <<":">> \o row.shortcode \o <<":">>

\* Emoji.as_html
as_html(row) ==
    IF is_usable(row) THEN <<Img(full_url(row), row.shortcode)>>
                      ELSE Literal(fullcode(row))

\* list(cls.locals.values())
RECURSIVE Values(_)
Values(d) ==
    IF DOMAIN d = {} THEN <<>>
    ELSE LET k == CHOOSE k \in DOMAIN d : TRUE
         IN <<d[k]>> \o Values([x \in DOMAIN d \ {k} |-> d[x]])

\* (Variant: the given rows first, the local ones after them.)
EmojiSetLocalLast(cache, extra, include_local) ==
    extra \o (IF include_local THEN Values(cache) ELSE <<>>)

\* emoji_set: the local cache's rows when include_local, then the given ones.
EmojiSet(cache, extra, include_local) ==
    (IF include_local THEN Values(cache) ELSE <<>>) \o extra

\* possible_matches: {emoji.shortcode: emoji.as_html() for emoji in emoji_set
\* if emoji.is_usable}; a later emoji replaces an earlier one of its shortcode.
RECURSIVE PossibleMatches(_)
PossibleMatches(emoji_set) ==
    IF emoji_set = <<>> THEN <<>>
    ELSE LET n == Len(emoji_set)
             emoji == emoji_set[n]
             earlier == PossibleMatches(SubSeq(emoji_set, 1, n - 1))
         IN IF is_usable(emoji)
              THEN [code \in DOMAIN earlier \cup {emoji.shortcode} |->
                      IF code = emoji.shortcode THEN as_html(emoji)
                                                ELSE earlier[code]]
              ELSE earlier

\* (Variant: the code is looked up as written, not lower-cased.)
replacer_no_lower(possible_matches, s, i, j) ==
    IF Group1(s, i, j) \in DOMAIN possible_matches
      THEN possible_matches[Group1(s, i, j)]
      ELSE Literal(SubSeq(s, i, j))

\* replacer(match), for the match of s from i to j.
replacer(possible_matches, s, i, j) ==
    LET code == Lower(Group1(s, i, j))
    IN IF code \in DOMAIN possible_matches
         THEN possible_matches[code]
         ELSE Literal(SubSeq(s, i, j))

\* emoji_regex.sub(replacer, s), from index i on.
RECURSIVE Sub(_, _, _)
Sub(possible_matches, s, i) ==
    IF i > Len(s) THEN <<>>
    ELSE LET j == MatchAt(s, i)
         IN IF j # 0
              THEN replacer(possible_matches, s, i, j) \o Sub(possible_matches, s, j + 1)
              ELSE <<Char(s[i])>> \o Sub(possible_matches, s, i + 1)

\* Emoji.objects.usable(domain)
usable_query(domain) ==
    /\ call.op = "none"
    /\ call' = [op |-> "usable", domain |-> domain,
                result |-> usable(Range(emojis), domain)]
    /\ UNCHANGED <<emojis, config, locals, statorVars>>

\* Emoji.load_locals, stored in Emoji.locals: one row per shortcode, the one the
\* queryset happens to yield last.
load_locals ==
    LET rows == {r \in usable(Range(emojis), DomainNone) : r.local}
        codes == {r.shortcode : r \in rows}
    IN /\ call.op = "none"
       /\ \E d \in [codes -> rows] :
            /\ \A code \in codes : d[code].shortcode = code
            /\ locals' = d
            /\ call' = [op |-> "load_locals", result |-> Range(d)]
       /\ UNCHANGED <<emojis, config, statorVars>>

\* Emoji.emojis_from_content; the content holds no markup for strip_html to remove.
emojis_from_content(content, domain) ==
    LET emoji_hits == FindAll(content, 1)
        codes == {Lower(hit) : hit \in Range(emoji_hits)}
        qs == {r \in Range(emojis) : r.local = (IsNone(domain) \/ domain.local)}
    IN /\ call.op = "none"
       /\ call' = [op |-> "emojis_from_content", content |-> content,
                   domain |-> domain,
                   result |-> {r \in usable(qs, domain) : r.shortcode \in codes}]
       /\ UNCHANGED <<emojis, config, locals, statorVars>>

\* Emoji.imageify_emojis
imageify_emojis(content, extra, include_local) ==
    LET emoji_set == EmojiSet(locals, extra, include_local)
        possible_matches == PossibleMatches(emoji_set)
    IN /\ call.op = "none"
       /\ call' = [op |-> "imageify_emojis", content |-> content,
                   emojis |-> extra, include_local |-> include_local,
                   locals |-> locals,
                   out |-> Sub(possible_matches, content, 1)]
       /\ UNCHANGED <<emojis, config, locals, statorVars>>

\* The table the read paths run against: a local upload and a remote emoji of
\* the same shortcode, each reviewed, rejected or not yet reviewed.
RenderTables ==
    { <<EmojiRow(1, <<"a">>, NULL, TRUE, p1, NULL, "image/png", "a.png", NULL),
        EmojiRow(2, <<"a">>, DomainRemote1.name, FALSE, p2,
                 "https://remote/emoji/1", "image/png", NULL,
                 "https://remote/a.png")>>
        : p1 \in {"true", "false", NULL}, p2 \in {"true", "false", NULL} }

InitRender ==
    /\ emojis \in RenderTables
    /\ config \in BOOLEAN
    /\ locals = <<>>
    /\ call = NoCall
    /\ now = 0
    /\ next_attempt = <<>>
    /\ locked = <<>>
    /\ task = <<>>
    /\ fetch_log = <<>>
    /\ save_log = <<>>

Scopes == {DomainNone} \cup Domains
ExtraLists == UNION {[1..n -> Range(emojis)] : n \in 0..MaxExtra}

\* The calls a caller can make once its previous call has returned.
NextRender ==
    \/ /\ call.op = "none"
       /\ \E domain \in Scopes : usable_query(domain)
    \/ load_locals
    \/ /\ call.op = "none"
       /\ \E content \in Contents, domain \in Scopes :
             emojis_from_content(content, domain)
    \/ /\ call.op = "none"
       /\ \E content \in Contents, extra \in ExtraLists, include_local \in BOOLEAN :
             imageify_emojis(content, extra, include_local)
    \/ Return

SpecRender == InitRender /\ [][NextRender]_vars

(***************************************************************************)
(* Claims about handle_outdated (checked under SpecStator).                *)
(***************************************************************************)
LastFetch(pk) == fetch_log[pk][Len(fetch_log[pk])]

\* C1: a row in `outdated` with a remote URL and no file whose fetch fails stays
\* in `outdated` with file and mimetype untouched, and once the run is over its
\* next attempt is due no sooner than one try interval later.
C1_FailedFetchStaysOutdated ==
    \A pk \in DOMAIN fetch_log :
        (fetch_log[pk] # <<>> /\ ~FetchedTruthy(LastFetch(pk))) =>
            /\ emojis[pk].state = "outdated"
            /\ emojis[pk].file = NULL
            /\ emojis[pk].mimetype = "image/gif"
            /\ (~locked[pk] => next_attempt[pk] >= try_interval)

\* C2: a handler run on a row that has a file, or has no remote URL, returns
\* `updated` without calling get_remote_file and without changing or saving the
\* row, and the driver then moves the row, otherwise unchanged, to `updated`.
C2_NothingToFetch ==
    [][\A w \in Workers :
         LET pk == task[w].pk
         IN /\ (/\ task[w].pc = "handle"
                /\ task'[w].pc # "handle"
                /\ (emojis[pk].file # NULL \/ emojis[pk].remote_url = NULL))
                  => /\ task'[w].pc = "return"
                     /\ task'[w].ret = "updated"
                     /\ emojis' = emojis
                     /\ fetch_log' = fetch_log
                     /\ save_log' = save_log
            /\ (/\ task[w].pc = "return"
                /\ task'[w].pc = "idle"
                /\ fetch_log[pk] = <<>>)
                  => /\ emojis'[pk] = [emojis[pk] EXCEPT !.state = "updated"]
                     /\ fetch_log'[pk] = <<>>
                     /\ save_log'[pk] = 0]_vars

C2_Witness ==
    /\ \E pk \in DOMAIN emojis :
          /\ emojis[pk].state = "updated"
          /\ emojis[pk].remote_url = NULL /\ emojis[pk].file = NULL
          /\ fetch_log[pk] = <<>> /\ save_log[pk] = 0
    /\ \E pk \in DOMAIN emojis :
          /\ emojis[pk].state = "updated"
          /\ emojis[pk].remote_url # NULL /\ emojis[pk].file = "cached.gif"
          /\ fetch_log[pk] = <<>> /\ save_log[pk] = 0

\* C3: once get_remote_file has returned a file for a row, the stored row holds
\* that file and that media type and has been saved; this is so from the moment
\* the handler is about to return `updated`, and stays so in `updated`.
C3_FetchedIsStored ==
    \A pk \in DOMAIN fetch_log :
        (fetch_log[pk] # <<>> /\ LastFetch(pk).file # NULL) =>
            /\ emojis[pk].file = LastFetch(pk).file
            /\ emojis[pk].mimetype = LastFetch(pk).mimetype
            /\ save_log[pk] >= 1
            /\ \A w \in Workers :
                 (task[w].pc = "return" /\ task[w].pk = pk) => task[w].ret = "updated"

C3_Witness ==
    \E pk \in DOMAIN fetch_log :
        /\ emojis[pk].state = "updated"
        /\ fetch_log[pk] # <<>>
        /\ LastFetch(pk).file = "fetched.png"
        /\ emojis[pk].file = "fetched.png"

\* C4: no two handler runs are in progress for the same row at any time.
C4_OneRunPerRow ==
    \A w1, w2 \in Workers :
        (w1 # w2 /\ task[w1].pc # "idle" /\ task[w2].pc # "idle")
            => task[w1].pk # task[w2].pk

\* Two runs for distinct rows are suspended in their fetch at the same time.
C4_Witness ==
    \E w1, w2 \in Workers :
        /\ w1 # w2
        /\ task[w1].pc = "fetch" /\ task[w2].pc = "fetch"
        /\ task[w1].pk # task[w2].pk

(***************************************************************************)
(* Claims about the write paths (SpecStore, SpecApTag).                    *)
(***************************************************************************)
\* `after` is `before` with exactly the one new row `pk`.
OneRowAdded(before, after, pk) ==
    /\ pk \notin DOMAIN before
    /\ DOMAIN after = DOMAIN before \cup {pk}
    /\ \A q \in DOMAIN before : after[q] = before[q]

\* C5: every stored row has local true iff its domain is NULL; clean() raises
\* exactly when the two differ, and a write it rejects stores nothing; the row
\* by_ap_tag creates has domain NULL and local true for a local domain, the
\* domain and local false for a remote one.
C5_LocalIffNoDomain ==
    /\ \A pk \in Pks : emojis[pk].local <=> (emojis[pk].domain = NULL)
    /\ call.op = "validated_write" =>
          /\ call.clean_raised <=>
                (call.candidate.local # (call.candidate.domain = NULL))
          /\ call.clean_raised =>
                (call.outcome = "ValidationError" /\ emojis = call.before)
    /\ (call.op = "by_ap_tag" /\ call.outcome = "created") =>
          IF call.domain.local
            THEN emojis[call.ret].domain = NULL /\ emojis[call.ret].local
            ELSE emojis[call.ret].domain = call.domain.name /\ ~emojis[call.ret].local

\* A write was rejected by clean() while local and remote rows are stored.
C5_Witness ==
    /\ call.op = "validated_write"
    /\ call.clean_raised
    /\ \E pk \in Pks : emojis[pk].local /\ emojis[pk].domain = NULL
    /\ \E pk \in Pks : ~emojis[pk].local /\ emojis[pk].domain = DomainRemote1.name

\* What by_ap_tag does when a row with data's id exists, and when none exists and
\* create is false.
C8_HitAndMiss ==
    LET found == GetByObjectUri(call.before, call.data.id)
    IN /\ found # {} =>
            /\ call.outcome = "returned"
            /\ call.ret \in found
            /\ emojis = call.before
       /\ (found = {} /\ ~call.create) =>
            /\ call.outcome = "KeyError"
            /\ emojis = call.before

\* The row by_ap_tag is to create on a miss, as the claim describes it.
C8_Created ==
    /\ call.outcome = "created"
    /\ OneRowAdded(call.before, emojis, call.ret)
    /\ emojis[call.ret].state = "outdated"
    /\ emojis[call.ret].object_uri = call.data.id
    /\ emojis[call.ret].remote_url = call.data.icon.url
    /\ emojis[call.ret].file = NULL

\* C8 as stated: a hit returns the row and changes nothing; a miss without
\* create raises KeyError and changes nothing; a miss with create creates exactly
\* one new row, in `outdated`, with the object URI, the icon's URL, and no file.
C8_ThreeOutcomes ==
    call.op = "by_ap_tag" =>
        /\ C8_HitAndMiss
        /\ (GetByObjectUri(call.before, call.data.id) = {} /\ call.create)
              => C8_Created

\* C8 amended: on a miss with create, the row is created as described unless a
\* stored row of the same remote domain already has the shortcode; then the
\* insert is rejected with an IntegrityError and the table is unchanged.
C8_FourOutcomes ==
    call.op = "by_ap_tag" =>
        /\ C8_HitAndMiss
        /\ (GetByObjectUri(call.before, call.data.id) = {} /\ call.create) =>
              IF /\ ~call.domain.local
                 /\ \E pk \in DOMAIN call.before :
                       /\ call.before[pk].domain = call.domain.name
                       /\ call.before[pk].shortcode = Strip(Lower(call.data.name))
                THEN call.outcome = "IntegrityError" /\ emojis = call.before
                ELSE C8_Created

\* by_ap_tag created a second row beside an existing one.
C8_Witness ==
    /\ call.op = "by_ap_tag"
    /\ call.create
    /\ call.outcome = "created"
    /\ call.before # <<>>
    /\ emojis[call.ret].remote_url = TagIcon.url
    /\ emojis[call.ret].shortcode = <<"a">>

\* C10: no two stored rows share a non-NULL object URI, and no two share the
\* same (domain, shortcode) pair.
C10_Unique ==
    \A p, q \in Pks :
        p # q =>
            /\ (emojis[p].object_uri # NULL
                   => emojis[p].object_uri # emojis[q].object_uri)
            /\ <<emojis[p].domain, emojis[p].shortcode>>
                   # <<emojis[q].domain, emojis[q].shortcode>>

(***************************************************************************)
(* Claims about the read paths (SpecRender).                               *)
(***************************************************************************)
\* C6: every row that usable() returns, and so every row emojis_from_content
\* returns and every row load_locals caches, is usable: its public flag is true,
\* or it is unset and emoji_unreviewed_are_public is true.
C6_ReturnedAreUsable ==
    call.op \in {"usable", "load_locals", "emojis_from_content"} =>
        \A row \in call.result :
            \/ row.public = "true"
            \/ row.public = NULL /\ config

\* A `:code:` occurrence of s from i to j: two colons around one or more code
\* characters, with no word character next to either colon.
IsOccurrence(s, i, j) ==
    /\ 1 <= i /\ i + 1 < j /\ j <= Len(s)
    /\ s[i] = ":" /\ s[j] = ":"
    /\ \A k \in (i + 1)..(j - 1) : s[k] \in {"a", "A", "-"}
    /\ i = 1 \/ s[i - 1] \notin {"a", "A"}
    /\ j = Len(s) \/ s[j + 1] \notin {"a", "A"}

\* Where the occurrence that starts at i ends (0: none starts there).
OccurrenceEnd(s, i) ==
    IF \E j \in 1..Len(s) : IsOccurrence(s, i, j)
      THEN CHOOSE j \in 1..Len(s) : IsOccurrence(s, i, j)
      ELSE 0

\* The occurrences a left-to-right scan takes, as start -> end (0: not taken):
\* an occurrence is taken unless its opening colon closes a taken one.
Occurrences(s) ==
    LET Occ[i \in 1..Len(s)] ==
          IF /\ OccurrenceEnd(s, i) # 0
             /\ \A h \in 1..(i - 1) : OccurrenceEnd(s, h) = i => Occ[h] = 0
            THEN OccurrenceEnd(s, i)
            ELSE 0
    IN [i \in 1..Len(s) |-> Occ[i]]

\* The code of the occurrence of s from i to j, lower-cased.
LowerCode(s, i, j) == Lower(SubSeq(s, i + 1, j - 1))

\* The usable rows among `rows` with the given shortcode.
UsableWith(rows, code) ==
    {row \in rows :
        /\ row.public = "true" \/ (row.public = NULL /\ config)
        /\ row.shortcode = code}

\* The rows imageify_emojis was given to look codes up in.
LookedUp == (IF call.include_local THEN Range(call.locals) ELSE {})
                \cup Range(call.emojis)

\* The starts of the taken occurrences of s that have a usable row in `rows`.
Hits(s, occ, rows) ==
    {i \in 1..Len(s) :
        occ[i] # 0 /\ UsableWith(rows, LowerCode(s, i, occ[i])) # {}}

\* The characters a replaced occurrence takes with it, its first one excepted.
Swallowed(s, occ, hits) ==
    {k \in 1..Len(s) : \E i \in hits : i < k /\ k <= occ[i]}

\* Where the piece for the content's i-th character stands in the output.
OutPos(swallowed, i) == i - Cardinality({k \in swallowed : k < i})

\* C7: imageify_emojis replaces a `:code:` occurrence by an <img> exactly when
\* the lower-cased code is the shortcode of a usable row among the local cache
\* (if include_local) and the given rows; everything else, occurrences without
\* a usable row included, comes out as written.
C7_ReplacedIffUsable ==
    call.op = "imageify_emojis" =>
        LET s == call.content
            occ == Occurrences(s)
            hits == Hits(s, occ, LookedUp)
            swallowed == Swallowed(s, occ, hits)
        IN /\ Len(call.out) = Len(s) - Cardinality(swallowed)
           /\ \A i \in (1..Len(s)) \ swallowed :
                 IF i \in hits
                   THEN /\ call.out[OutPos(swallowed, i)].t = "img"
                        /\ call.out[OutPos(swallowed, i)].alt = LowerCode(s, i, occ[i])
                   ELSE call.out[OutPos(swallowed, i)] = Char(s[i])

\* `:A:` was replaced through the local cache although the row given for `a` is
\* not usable.
C7_Witness ==
    /\ call.op = "imageify_emojis"
    /\ call.content = <<":", "A", ":">>
    /\ call.include_local
    /\ Len(call.emojis) = 1
    /\ call.emojis[1].shortcode = <<"a">>
    /\ ~is_usable(call.emojis[1])
    /\ Len(call.out) = 1
    /\ call.out[1].t = "img"

\* C9: with include_local, an occurrence for which a usable given row exists is
\* replaced by the markup of such a given row; the local row's markup is used
\* only when no usable given row has the shortcode; and the call leaves the
\* local cache as it was.
C9_LocalIsFallback ==
    (call.op = "imageify_emojis" /\ call.include_local) =>
        LET s == call.content
            occ == Occurrences(s)
            hits == Hits(s, occ, LookedUp)
            swallowed == Swallowed(s, occ, hits)
        IN /\ locals = call.locals
           /\ \A i \in hits :
                 LET code == LowerCode(s, i, occ[i])
                     given == UsableWith(Range(call.emojis), code)
                     piece == call.out[OutPos(swallowed, i)]
                 IN IF given # {}
                      THEN \E row \in given : <<piece>> = as_html(row)
                      ELSE <<piece>> = as_html(call.locals[code])

\* The cache and the given list both hold a usable `a`; the given row's markup
\* (served through the proxy) was substituted, not the local one's (a file).
C9_Witness ==
    /\ call.op = "imageify_emojis"
    /\ call.include_local
    /\ call.content = <<":", "a", ":">>
    /\ <<"a">> \in DOMAIN call.locals
    /\ is_usable(call.locals[<<"a">>])
    /\ Len(call.emojis) = 1
    /\ ~call.emojis[1].local
    /\ is_usable(call.emojis[1])
    /\ call.out = <<Img([kind |-> "proxy", file |-> NULL, pk |-> 2], <<"a">>)>>

====
